---- MODULE Spec2Model ----
(***************************************************************************)
(* Model of scripts/tenant_manager.py: the ProcessManager that supervises  *)
(* one ComfyUI process per tenant, its registry (self.processes), the      *)
(* registry file /tmp/comfyui_processes.json, and the host's process       *)
(* table as seen through psutil.pid_exists / os.killpg.                    *)
(*                                                                         *)
(* Each ProcessManager method is one action.  Everything the host decides  *)
(* during a call (probe answers, whether a signalled process goes away,    *)
(* whether a file write succeeds, whether the supervisor is killed in the  *)
(* middle) is an input of the action drawn with \E.                        *)
(***************************************************************************)
EXTENDS Integers, Sequences, FiniteSets, TLC

\* ------------------------------------------------------------------ bounds
MaxPid == 2          \* the host's pid space is 1..MaxPid (pids are reused)
MaxPort == 2         \* ports a caller may ask for are 1..MaxPort
MaxTime == 2         \* time.time() readings are 1..MaxTime; one tick per spawn
MaxFaults == 1       \* failed writes, failed starts and mid-call kills per run
MaxHost == 1         \* processes of the host itself that hold a pid at a time
MaxConn == 2         \* connections to the server that are open at a time

Tenants == {"t1", "t2"}
Users == {"alice", "bob"}
Pids == 1..MaxPid
Ports == 1..MaxPort

\* ------------------------------------------------------------ environment
\* What the service behind a port answers to the two-stage probe.
ProbeResponses == {"refused", "http_500", "http_200"}

\* Everything the two calls of the probe can meet: connect_ex gives an error
\* number (connection refused, or the 2 s timeout), or making the socket
\* raises; then requests.get raises (connection error, the 5 s timeout) or
\* gives a response with a status code.
ConnectFailures == {"refused", "connect_timeout", "connect_raised"}
GetFailures == {"get_conn_error", "get_timeout"}
ProbeOutcomes ==
    ConnectFailures \cup GetFailures
    \cup {"http_200", "http_204", "http_404", "http_500"}

\* response.status_code
StatusCode(resp) ==
    CASE resp = "http_200" -> 200
      [] resp = "http_204" -> 204
      [] resp = "http_404" -> 404
      [] resp = "http_500" -> 500
      [] OTHER -> 0

\* Outcomes of one open(..., 'w') + json.dump, and of the supervisor being
\* killed while it runs.
SaveOutcomes == {"ok", "open_fail", "write_fail", "crash"}

\* What happens to the recorded pid while a SIGTERM / wait / SIGKILL / wait
\* sequence runs.
GONE_BEFORE_CHECK == "gone_before_check"
GONE_BEFORE_TERM == "gone_before_term"
DIED_ON_TERM == "died_on_term"
GONE_BEFORE_KILL == "gone_before_kill"
DIED_ON_KILL == "died_on_kill"
SURVIVED_KILL == "survived_kill"
KillOutcomes ==
    {GONE_BEFORE_TERM, DIED_ON_TERM, GONE_BEFORE_KILL, DIED_ON_KILL, SURVIVED_KILL}

\* Where start_tenant can fail after the idempotence check.
StartFaults == {"none", "mkdir", "scripts", "spawn", "crash_after_spawn"}

\* How _setup_cloudwatch_logging can go: the log directory cannot be made,
\* the setup script is not there, it exits non-zero, it runs into the 30 s
\* timeout, or it succeeds.
CloudwatchOutcomes == {"ok", "mkdir_error", "no_script", "nonzero", "timeout"}

\* env_vars a caller may pass: none, or an override of the workspace path.
EmptyEnv == [k \in {} |-> <<>>]
EnvChoices == {EmptyEnv, [k \in {"NETWORK_VOLUME"} |-> <<"data">>]}

\* The start requests callers send: (POD_ID, POD_USERNAME, PORT, env).  t1 can
\* be started in two ways (a second user name, port and a workspace override),
\* and t2 is asked to use a port t1 may hold.
Req(t, username, port, env) ==
    [t |-> t, username |-> username, port |-> port, env |-> env]

StartRequests ==
    {Req("t1", "alice", 1, EmptyEnv),
     Req("t1", "bob", MaxPort, [k \in {"NETWORK_VOLUME"} |-> <<"data">>]),
     Req("t2", "bob", 1, EmptyEnv)}

VARIABLES
    processes,   \* self.processes: tenant-id -> process_info (a dict)
    file,        \* /tmp/comfyui_processes.json
    os,          \* host process table: pid -> "free" | "host" | "child" |
                 \* tenant-id
    dirs,        \* workspace directories that exist
    up,          \* the supervisor process is running
    now,         \* time.time()
    swept,       \* records a dead-process sweep has removed, each with
                 \* whether the sweep's write of the file succeeded
    disowned,    \* pids of processes that outlived a kill sequence
    faults,      \* failures injected so far
    last,        \* the last call: what it was given, did and returned
    backlog,     \* connections waiting on the listening socket
    inflight,    \* requests a handler is working on
    served       \* the request the last handler that finished was given

vars ==
    <<processes, file, os, dirs, up, now, swept, disowned, faults, last,
      backlog, inflight, served>>

\* The state of the HTTP server around the ProcessManager.
http == <<backlog, inflight, served>>

\* A request as a handler reads it: the request line, whether the body is
\* JSON at all, and the JSON object.
HttpRequest(method, path, json, body) ==
    [method |-> method, path |-> path, json |-> json, body |-> body]

NoBody == [k \in {} |-> <<>>]
NoRequest == HttpRequest("-", "-", FALSE, NoBody)

\* ---------------------------------------------------------------- registry
EmptyReg == [k \in {} |-> <<>>]

\* del self.processes[pod_id]
Del(procs, t) == [k \in (DOMAIN procs) \ {t} |-> procs[k]]

\* self.processes[pod_id] = process_info
Put(procs, t, info) ==
    [k \in (DOMAIN procs) \cup {t} |-> IF k = t THEN info ELSE procs[k]]

\* psutil.pid_exists(pid) against a process table
PidExists(table, pid) == pid \in DOMAIN table /\ table[pid] # "free"

\* The id of the supervisor's own process group: the pids of the table start
\* at 1, and 0 is none of them.
SupervisorGroup == 0

\* os.getpgid(pid).  A tenant's process called os.setsid before exec (line
\* 184) and leads the group that carries its pid; a "child" is a process the
\* supervisor started without setsid (the shell of /execute and what it
\* leaves behind, the cp of line 313, the script of line 327) and is in the
\* supervisor's group; a "host" process is in a group of its own.
Getpgid(table, pid) ==
    IF table[pid] = "child" THEN SupervisorGroup ELSE pid

\* ------------------------------------------------------------ persistence
JsonDumpInfo_DropEnv(info) ==
    <<info.pid, info.port, info.username, info.network_volume,
      info.started_at, EmptyEnv>>

\* json.dump(self.processes, f): every record is written as the values of
\* 'pid', 'port', 'username', 'network_volume', 'started_at', 'env', in the
\* order start_tenant builds the dict.
JsonDumpInfo(info) ==
    <<info.pid, info.port, info.username, info.network_volume,
      info.started_at, info.env>>

JsonDump(procs) == [k \in DOMAIN procs |-> JsonDumpInfo(procs[k])]

\* json.load(f)
JsonLoadInfo(m) ==
    [pid |-> m[1], port |-> m[2], username |-> m[3], network_volume |-> m[4],
     started_at |-> m[5], env |-> m[6]]

JsonLoad(text) == [k \in DOMAIN text |-> JsonLoadInfo(text[k])]

NoFile == [state |-> "absent", text |-> EmptyReg]
CorruptFile == [state |-> "corrupt", text |-> EmptyReg]

\* save_processes(): open(..., 'w') truncates the file in place and json.dump
\* then writes it; every exception is logged and swallowed.
SaveProcesses(procs, old, outcome) ==
    CASE outcome = "ok" -> [state |-> "json", text |-> JsonDump(procs)]
      [] outcome = "open_fail" -> old
      [] OTHER -> CorruptFile

SaveReturns_OnlyOnSuccess(outcome) == outcome = "ok"

\* Whether save_processes() comes back to its caller: every Exception is
\* caught and logged at lines 61-62, so only the supervisor being killed
\* keeps it from returning.
SaveReturns(outcome) == outcome # "crash"

DeadPods_None(procs, table) == {}

DeadPods_Unchecked(procs, table) == DOMAIN procs

\* _cleanup_dead_processes(): the registry without the records whose pid is
\* truthy and does not exist.
DeadPods(procs, table) ==
    {k \in DOMAIN procs : procs[k].pid # 0 /\ ~PidExists(table, procs[k].pid)}

CleanupDeadProcesses(procs, table) ==
    [k \in (DOMAIN procs) \ DeadPods(procs, table) |-> procs[k]]

\* ------------------------------------------------------------ health probe
\* _is_port_open(): connect_ex returned 0; an exception gives False.
IsPortOpen(resp) == resp \notin ConnectFailures

\* _is_comfyui_healthy(): port open and GET / answered with status 200; an
\* exception gives False.
IsComfyuiHealthy(resp) ==
    IsPortOpen(resp) /\ resp \notin GetFailures /\ StatusCode(resp) = 200


\* ------------------------------------------------------------------ signals
Sig(name, pid) == [ev |-> name, pid |-> pid]

\* The network calls _is_comfyui_healthy(port) makes, in order.
ProbeEvents(port, resp) ==
    IF IsPortOpen(resp) THEN <<Sig("CONNECT", port), Sig("GET", port)>>
    ELSE <<Sig("CONNECT", port)>>

KillSequence_KillOnly(pid, co) ==
    CASE co \in {GONE_BEFORE_CHECK, GONE_BEFORE_TERM} -> <<>>
      [] OTHER -> <<Sig("SIGKILL", pid)>>

\* The os.killpg calls one SIGTERM / wait / SIGKILL / wait sequence makes on
\* `pid`, by what the process does meanwhile.  A ProcessLookupError from
\* os.getpgid / os.killpg ends the sequence where it is raised.
KillSequence(pid, co) ==
    CASE co \in {GONE_BEFORE_CHECK, GONE_BEFORE_TERM} -> <<>>
      [] co \in {DIED_ON_TERM, GONE_BEFORE_KILL} -> <<Sig("SIGTERM", pid)>>
      [] OTHER -> <<Sig("SIGTERM", pid), Sig("SIGKILL", pid)>>

\* os.killpg on the supervisor's own group runs signal_handler (lines 773-776)
\* in the supervisor: sys.exit(0) ends the call after its first signal.
HitsSupervisor(table, pid, evs) ==
    evs # <<>> /\ Getpgid(table, pid) = SupervisorGroup

Delivered(table, pid, evs) ==
    IF HitsSupervisor(table, pid, evs) THEN <<evs[1]>> ELSE evs

\* Whether the process is gone when the sequence ends: it left by itself, or
\* it died of a signal that was really sent.
Dies(co, evs, pid) ==
    \/ co \in {GONE_BEFORE_CHECK, GONE_BEFORE_TERM, GONE_BEFORE_KILL}
    \/ co = DIED_ON_TERM /\ \E i \in DOMAIN evs : evs[i] = Sig("SIGTERM", pid)
    \/ co = DIED_ON_KILL /\ \E i \in DOMAIN evs : evs[i] = Sig("SIGKILL", pid)

\* The process table after the sequence `evs` was run on `pid`.
AfterKill(table, pid, co, evs) ==
    IF Dies(co, evs, pid) THEN [table EXCEPT ![pid] = "free"] ELSE table

\* _force_cleanup_tenant(pod_id, process_info): signals only a pid that exists
\* (line 94), then always drops the record and saves.
ForceCleanupEvents(table, info, co) ==
    IF info.pid # 0 /\ PidExists(table, info.pid)
    THEN Delivered(table, info.pid, KillSequence(info.pid, co))
    ELSE <<>>

ForceCleanupTable(table, info, co) ==
    IF info.pid # 0 /\ PidExists(table, info.pid)
    THEN AfterKill(table, info.pid, co, ForceCleanupEvents(table, info, co))
    ELSE table

ForceCleanupRegistry(procs, t) == IF t \in DOMAIN procs THEN Del(procs, t) ELSE procs

\* ------------------------------------------------------------------- state
NoCall ==
    [op |-> "init", t |-> "-", status |-> "-", events |-> <<>>,
     probe |-> "not_probed", fault |-> "none", saves |-> <<>>, dead |-> {},
     listing |-> EmptyReg, cloudwatch |-> "not_run", spawn_env |-> EmptyEnv]

Call(op, t, status) == [NoCall EXCEPT !.op = op, !.t = t, !.status = status]

Init ==
    /\ processes = EmptyReg
    /\ file = NoFile
    /\ os = [p \in Pids |-> "free"]
    /\ dirs = {}
    /\ up = TRUE
    /\ now = 1
    /\ swept = {}
    /\ disowned = {}
    /\ faults = 0
    /\ last = NoCall
    /\ backlog = 0
    /\ inflight = 0
    /\ served = NoRequest

\* The supervisor process is gone: its in-memory registry with it.
Down == up' = FALSE /\ processes' = EmptyReg

\* Failures a call may still be given.
Failed(outcome) == IF outcome \in {"ok", "none"} THEN 0 ELSE 1
\* `choices` while the call, which has been given `used` failures already,
\* may be given one more; otherwise only the outcome without a failure.
Within(used, choices, dflt) ==
    IF faults + used < MaxFaults THEN choices ELSE {dflt}
SaveChoices == Within(0, SaveOutcomes, "ok")
FaultChoices == Within(0, StartFaults, "none")
CloudwatchChoices == Within(0, CloudwatchOutcomes, "ok")

\* env_vars.get('NETWORK_VOLUME', f'/workspace/{pod_id}')
NetworkVolume(t, env) ==
    IF "NETWORK_VOLUME" \in DOMAIN env THEN env["NETWORK_VOLUME"]
    ELSE <<"workspace", t>>

Makedirs_NoExistOk(ds, nv, refused) ==
    [raised |-> refused \/ nv \in ds,
     dirs |-> IF refused THEN ds ELSE ds \cup {nv}]

\* os.makedirs(network_volume, exist_ok=True): raises only when the host
\* refuses, never because the directory is already there.
Makedirs(ds, nv, refused) ==
    [raised |-> refused, dirs |-> IF refused THEN ds ELSE ds \cup {nv}]

SetupCloudwatchLogging_Propagates(ds, nv, cw) ==
    [raised |-> cw # "ok",
     dirs |-> IF cw = "mkdir_error" THEN ds ELSE ds \cup {Append(nv, "logs")}]

\* _setup_cloudwatch_logging(pod_id, network_volume): makes the log directory
\* and runs the setup script; whatever goes wrong is logged inside its own
\* try (lines 317-345) and nothing is raised.
SetupCloudwatchLogging(ds, nv, cw) ==
    [raised |-> FALSE,
     dirs |-> IF cw = "mkdir_error" THEN ds ELSE ds \cup {Append(nv, "logs")}]

\* str(n) for n >= 0: the decimal digits, most significant first.
Digit(d) ==
    CASE d = 0 -> "0" [] d = 1 -> "1" [] d = 2 -> "2" [] d = 3 -> "3"
      [] d = 4 -> "4" [] d = 5 -> "5" [] d = 6 -> "6" [] d = 7 -> "7"
      [] d = 8 -> "8" [] OTHER -> "9"

RECURSIVE Str(_)
Str(n) == IF n < 10 THEN <<Digit(n)>> ELSE Append(Str(n \div 10), Digit(n % 10))

\* os.environ of the supervisor.
Environ == [k \in {"PATH"} |-> <<"usr", "bin">>]

\* dict.update: the keys of `over` replace those of `base`.
Update(base, over) ==
    [k \in (DOMAIN base) \cup (DOMAIN over) |->
        IF k \in DOMAIN over THEN over[k] ELSE base[k]]

\* Lines 165-172: the environment handed to Popen.  The caller's env_vars are
\* spread last into the dict literal, so they replace the four values
\* start_tenant sets.
TenantEnv(t, username, port, env) ==
    Update(Environ,
           Update([POD_ID |-> t, POD_USER_NAME |-> username,
                   NETWORK_VOLUME |-> NetworkVolume(t, env),
                   COMFYUI_PORT |-> Str(port)],
                  env))

\* The process_info dict start_tenant stores (lines 188-195).
ProcessInfo(pid, port, username, nv, env) ==
    [pid |-> pid, port |-> port, username |-> username, network_volume |-> nv,
     started_at |-> now, env |-> env]

\* The process a kill sequence was run on, if it is still there afterwards.
Survivors(before, after, info) ==
    IF info.pid # 0 /\ PidExists(before, info.pid) /\ PidExists(after, info.pid)
    THEN {info.pid} ELSE {}

\* Pids that still name the process they named before.
StillThere(pset, table) == {p \in pset : table[p] # "free"}

\* --------------------------------------------------------------- start_tenant
AlreadyRunning_Never(procs, table, t, resp) == FALSE

\* The condition of lines 135-143: a record exists, its pid exists, its port
\* is truthy and the probe of that port is healthy.
AlreadyRunning(procs, table, t, resp) ==
    /\ t \in DOMAIN procs
    /\ PidExists(table, procs[t].pid)
    /\ procs[t].port # 0
    /\ IsComfyuiHealthy(resp)

\* Lines 144-151.
StartAlreadyRunning(t, resp) ==
    /\ AlreadyRunning(processes, os, t, resp)
    /\ last' = [Call("start", t, "already_running") EXCEPT !.probe = resp]
    /\ UNCHANGED <<processes, file, os, dirs, up, now, swept, disowned, faults>>

\* Lines 152-215: everything after the idempotence check.  `co` is what the
\* old process does during the forced cleanup, `s1` the outcome of the
\* cleanup's save, `fault` where the start fails, `pid` the pid the host
\* gives the new process, `s2` the outcome of the save at line 198, `cw` how
\* the log-forwarding setup of line 201 goes.
StartFresh(t, username, port, env, resp, co, s1, fault, pid, s2, cw) ==
    LET hadRec == t \in DOMAIN processes
        info == processes[t]
        alive == hadRec /\ PidExists(os, info.pid)
        probed == alive /\ info.port # 0
        \* line 94 looks at the pid again: it may have gone since line 141
        os0 == IF alive /\ co = GONE_BEFORE_CHECK
               THEN [os EXCEPT ![info.pid] = "free"] ELSE os
        ev1 == IF hadRec THEN ForceCleanupEvents(os0, info, co) ELSE <<>>
        os1 == IF hadRec THEN ForceCleanupTable(os0, info, co) ELSE os
        procs1 == ForceCleanupRegistry(processes, t)
        file1 == IF hadRec THEN SaveProcesses(procs1, file, s1) ELSE file
        sv1 == IF hadRec THEN <<s1>> ELSE <<>>
        nv == NetworkVolume(t, env)
        mk == Makedirs(dirs, nv, fault = "mkdir")
        spawns == fault \in {"none", "crash_after_spawn"}
        os2 == IF spawns THEN [os1 EXCEPT ![pid] = t] ELSE os1
        ev2 == IF fault \in {"none", "crash_after_spawn", "spawn"}
               THEN ev1 \o <<Sig("SPAWN", IF spawns THEN pid ELSE 0)>> ELSE ev1
        procs2 == Put(procs1, t, ProcessInfo(pid, port, username, nv, env))
        logs == SetupCloudwatchLogging(mk.dirs, nv, cw)
        call == [Call("start", t, "error") EXCEPT
                    !.probe = IF probed THEN resp ELSE "not_probed",
                    !.fault = fault]
        \* the call as it stands once Popen has been called (line 179)
        popen == IF fault \in {"none", "crash_after_spawn", "spawn"}
                 THEN [call EXCEPT !.spawn_env = TenantEnv(t, username, port, env)]
                 ELSE call
        \* the cleanup signalled the supervisor's own group
        selfHit == hadRec /\ info.pid # 0 /\ PidExists(os0, info.pid)
                   /\ HitsSupervisor(os0, info.pid, ev1)
    IN
    /\ ~AlreadyRunning(processes, os, t, resp)
    /\ selfHit => (s1 = "ok" /\ fault = "none" /\ s2 = "ok" /\ pid = 1)
    /\ (selfHit \/ fault # "none" \/ ~SaveReturns(s1) \/ ~SaveReturns(s2))
       => cw = "ok"
    /\ disowned' =
          StillThere(disowned, os1)
          \cup (IF hadRec THEN Survivors(os0, os1, info) ELSE {})
    /\ faults + Failed(s1) + Failed(fault) + Failed(s2) + Failed(cw) <= MaxFaults
    /\ faults' = faults + Failed(s1) + Failed(fault) + Failed(s2) + Failed(cw)
    /\ UNCHANGED swept
    /\ IF selfHit
       THEN /\ Down
            /\ os' = os1
            /\ last' = [call EXCEPT !.status = "crashed", !.events = ev1]
            /\ UNCHANGED <<file, dirs, now>>
       ELSE
       IF hadRec /\ ~SaveReturns(s1)
       THEN \* killed while the cleanup was saving
            /\ Down
            /\ file' = file1 /\ os' = os1
            /\ last' = [call EXCEPT !.status = "crashed", !.events = ev1,
                                    !.saves = sv1]
            /\ UNCHANGED <<dirs, now>>
       ELSE CASE mk.raised ->
                 \* os.makedirs raised
                 /\ processes' = procs1 /\ file' = file1 /\ os' = os1
                 /\ dirs' = mk.dirs
                 /\ last' = [call EXCEPT !.events = ev2, !.saves = sv1]
                 /\ UNCHANGED <<up, now>>
              [] fault \in {"scripts", "spawn"} ->
                 \* _setup_tenant_scripts or subprocess.Popen raised
                 /\ processes' = procs1 /\ file' = file1 /\ os' = os1
                 /\ dirs' = mk.dirs
                 /\ last' = [popen EXCEPT !.events = ev2, !.saves = sv1]
                 /\ UNCHANGED <<up, now>>
              [] fault = "crash_after_spawn" ->
                 \* killed between Popen returning and line 197
                 /\ now <= MaxTime /\ os1[pid] = "free"
                 /\ Down
                 /\ file' = file1 /\ os' = os2
                 /\ dirs' = mk.dirs
                 /\ now' = now + 1
                 /\ last' = [popen EXCEPT !.status = "crashed", !.events = ev2,
                                          !.saves = sv1]
              [] OTHER ->
                 /\ now <= MaxTime /\ os1[pid] = "free"
                 /\ os' = os2
                 /\ now' = now + 1
                 /\ file' = SaveProcesses(procs2, file1, s2)
                 /\ IF ~SaveReturns(s2)
                    THEN /\ Down
                         /\ dirs' = mk.dirs
                         /\ last' = [popen EXCEPT !.status = "crashed",
                                                  !.events = ev2,
                                                  !.saves = sv1 \o <<s2>>]
                    ELSE /\ processes' = procs2 /\ up' = up
                         /\ dirs' = logs.dirs
                         /\ last' = [popen EXCEPT
                                        !.status = IF logs.raised THEN "error"
                                                   ELSE "started",
                                        !.events = ev2,
                                        !.saves = sv1 \o <<s2>>,
                                        !.cloudwatch = cw]

\* start_tenant(pod_id, username, port, env_vars) with everything the host
\* decides while it runs.
StartCall(r) ==
    LET hadRec == r.t \in DOMAIN processes
        alive == hadRec /\ PidExists(os, processes[r.t].pid)
    IN
    \E resp \in (IF alive THEN ProbeResponses ELSE {"refused"}) :
       \/ StartAlreadyRunning(r.t, resp)
       \/ /\ ~AlreadyRunning(processes, os, r.t, resp)
          /\ \E co \in (IF alive THEN {GONE_BEFORE_CHECK} \cup KillOutcomes
                        ELSE {DIED_ON_TERM}),
                s1 \in (IF hadRec THEN SaveChoices ELSE {"ok"}) :
                \E fault \in (IF s1 = "crash" THEN {"none"}
                              ELSE Within(Failed(s1), StartFaults, "none")) :
                   \E pid \in (IF s1 # "crash" /\ fault \in {"none", "crash_after_spawn"}
                               THEN Pids ELSE {1}),
                      s2 \in (IF s1 # "crash" /\ fault = "none"
                              THEN Within(Failed(s1), SaveOutcomes, "ok")
                              ELSE {"ok"}) :
                      \E cw \in (IF s1 # "crash" /\ fault = "none" /\ s2 # "crash"
                                 THEN Within(Failed(s1) + Failed(s2),
                                             CloudwatchOutcomes, "ok")
                                 ELSE {"ok"}) :
                         StartFresh(r.t, r.username, r.port, r.env, resp,
                                    co, s1, fault, pid, s2, cw)

StartTenant ==
    /\ up
    /\ UNCHANGED http
    /\ \E r \in StartRequests : StartCall(r)

\* ---------------------------------------------------------------- stop_tenant
\* Lines 231-246: SIGTERM to the group, up to 30 one-second polls, SIGKILL if
\* the pid is still there, all under one `except ProcessLookupError`.
StopSequence(pid, co) ==
    CASE co = GONE_BEFORE_TERM -> <<>>
      [] co \in {DIED_ON_TERM, GONE_BEFORE_KILL} -> <<Sig("SIGTERM", pid)>>
      [] OTHER -> <<Sig("SIGTERM", pid), Sig("SIGKILL", pid)>>

StopSequenceRaises_LookupError(co) ==
    co \in {GONE_BEFORE_TERM, GONE_BEFORE_KILL}

\* What lines 231-246 raise into the rest of stop_tenant: the
\* ProcessLookupError that os.getpgid / os.killpg raise for a pid that has
\* gone since it was last looked at is caught at lines 245-246.
StopSequenceRaises(co) == FALSE

\* Lines 220-221.
StopNotFound(t) ==
    /\ t \notin DOMAIN processes
    /\ last' = Call("stop", t, "not_found")
    /\ UNCHANGED <<processes, file, os, dirs, up, now, swept, disowned, faults>>

StopRegistry_KeepUnconfirmed(procs, t, co) ==
    IF co = SURVIVED_KILL THEN procs ELSE Del(procs, t)

\* Lines 227 and 249: the record goes whatever the signals achieved.
StopRegistry(procs, t, co) == Del(procs, t)

\* Lines 226-229 and 254.
StopStatus(alive) == IF alive THEN "stopped" ELSE "not_running"

\* Lines 223-254: `s` is the outcome of the save that follows the removal.
StopRecorded(t, co, s) ==
    LET info == processes[t]
        alive == info.pid # 0 /\ PidExists(os, info.pid)
        procs1 == StopRegistry(processes, t, co)
        evs == IF alive THEN Delivered(os, info.pid, StopSequence(info.pid, co))
               ELSE <<>>
        \* the SIGTERM went to the supervisor's own group
        selfHit == alive /\ HitsSupervisor(os, info.pid, evs)
    IN
    /\ t \in DOMAIN processes
    /\ os' = IF alive THEN AfterKill(os, info.pid, co, evs) ELSE os
    /\ disowned' = StillThere(disowned, os') \cup Survivors(os, os', info)
    /\ IF selfHit
       THEN /\ s = "ok"
            /\ Down
            /\ last' = [Call("stop", t, "crashed") EXCEPT !.events = evs]
            /\ UNCHANGED <<file, faults>>
       ELSE
       IF alive /\ StopSequenceRaises(co)
       THEN \* lines 256-258: logged and raised again, the record stays
            /\ s = "ok"
            /\ last' = [Call("stop", t, "error") EXCEPT !.events = evs]
            /\ UNCHANGED <<processes, file, up, faults>>
       ELSE /\ faults' = faults + Failed(s)
            /\ file' = SaveProcesses(procs1, file, s)
            /\ IF ~SaveReturns(s) THEN Down ELSE processes' = procs1 /\ up' = up
            /\ last' = [Call("stop", t,
                             IF ~SaveReturns(s) THEN "crashed" ELSE StopStatus(alive))
                        EXCEPT !.events = evs, !.saves = <<s>>]
    /\ UNCHANGED <<dirs, now, swept>>

\* stop_tenant(pod_id) with everything the host decides while it runs.
StopCall(t) ==
    \/ StopNotFound(t)
    \/ /\ t \in DOMAIN processes
       /\ \E co \in (IF PidExists(os, processes[t].pid) THEN KillOutcomes
                     ELSE {DIED_ON_TERM}),
             s \in SaveChoices :
             StopRecorded(t, co, s)

StopTenant ==
    /\ up
    /\ UNCHANGED http
    /\ \E t \in Tenants : StopCall(t)

\* ------------------------------------------------------------ get_tenant_info
TenantStatus_AliveIsHealthy(info, table, resp) ==
    LET is_process_alive == PidExists(table, info.pid)
    IN [status |-> IF is_process_alive THEN "healthy" ELSE "dead",
        process_alive |-> is_process_alive,
        service_healthy |-> is_process_alive,
        pid |-> info.pid,
        resp |-> IF is_process_alive /\ info.port # 0 THEN resp ELSE "not_probed"]

\* Lines 266-279: the status of one record.
TenantStatus(info, table, resp) ==
    LET is_process_alive == PidExists(table, info.pid)
        is_service_healthy ==
            IF is_process_alive THEN info.port # 0 /\ IsComfyuiHealthy(resp)
            ELSE FALSE
    IN [status |-> IF is_process_alive /\ is_service_healthy THEN "healthy"
                   ELSE IF is_process_alive /\ ~is_service_healthy THEN "unhealthy"
                   ELSE "dead",
        process_alive |-> is_process_alive,
        service_healthy |-> is_service_healthy,
        pid |-> info.pid,
        resp |-> IF is_process_alive /\ info.port # 0 THEN resp ELSE "not_probed"]

SweepFile_Deferred(procs, table, old, s) == old

\* The sweep of line 262 / line 51 on `procs`: it saves only if it removed
\* something.
SweepFile(procs, table, old, s) ==
    IF DeadPods(procs, table) = {} THEN old
    ELSE SaveProcesses(CleanupDeadProcesses(procs, table), old, s)

SweptNow(procs, table, s) ==
    {[t |-> k, info |-> procs[k], saved |-> (s = "ok")] : k \in DeadPods(procs, table)}

\* get_tenant_info(): `gone` are the recorded pids that exit between the sweep
\* and line 268, `resps` what each probed port answers.
ListCall ==
    /\ LET dead == DeadPods(processes, os)
           procs1 == CleanupDeadProcesses(processes, os)
           pids == {procs1[k].pid : k \in DOMAIN procs1}
       IN
       \E s \in (IF dead = {} THEN {"ok"} ELSE SaveChoices),
          gone \in SUBSET pids :
          LET os1 == [p \in Pids |-> IF p \in gone THEN "free" ELSE os[p]]
              alive == {k \in DOMAIN procs1 : PidExists(os1, procs1[k].pid)}
          IN
          \E resps \in [alive -> ProbeResponses] :
             /\ faults' = faults + (IF dead = {} THEN 0 ELSE Failed(s))
             /\ file' = SweepFile(processes, os, file, s)
             /\ swept' = swept \cup SweptNow(processes, os, s)
             /\ IF dead # {} /\ ~SaveReturns(s)
                THEN /\ Down
                     /\ os' = os
                     /\ last' = [Call("list", "-", "crashed") EXCEPT
                                    !.dead = dead, !.saves = <<s>>]
                ELSE /\ processes' = procs1
                     /\ up' = up
                     /\ os' = os1
                     /\ last' = [Call("list", "-", "ok") EXCEPT
                                    !.dead = dead,
                                    !.saves = IF dead = {} THEN <<>> ELSE <<s>>,
                                    !.listing =
                                        [k \in DOMAIN procs1 |->
                                            TenantStatus(procs1[k], os1,
                                                IF k \in alive THEN resps[k]
                                                ELSE "refused")]]
             /\ disowned' = StillThere(disowned, os')
             /\ UNCHANGED <<dirs, now>>

GetTenantInfo ==
    /\ up
    /\ UNCHANGED http
    /\ ListCall

\* ------------------------------------------------- supervisor stop and start
\* The supervisor is killed, or exits through signal_handler, between calls.
Crash ==
    /\ up
    /\ Down
    /\ last' = Call("crash", "-", "-")
    /\ UNCHANGED <<file, os, dirs, now, swept, disowned, faults, http>>

\* load_processes() on a registry file: a missing file leaves the registry
\* empty, an unreadable one raises and empties it (lines 52-54), a readable
\* one is loaded and swept.
LoadProcesses(f, table) ==
    IF f.state = "json" THEN CleanupDeadProcesses(JsonLoad(f.text), table)
    ELSE EmptyReg

\* main() -> ProcessManager() -> load_processes()
Restart ==
    /\ ~up
    /\ LET loaded == IF file.state = "json" THEN JsonLoad(file.text) ELSE EmptyReg
           dead == DeadPods(loaded, os)
       IN
       \E s \in (IF dead = {} THEN {"ok"} ELSE SaveChoices) :
          /\ faults' = faults + (IF dead = {} THEN 0 ELSE Failed(s))
          /\ file' = SweepFile(loaded, os, file, s)
          /\ swept' = swept \cup SweptNow(loaded, os, s)
          /\ IF dead # {} /\ ~SaveReturns(s)
             THEN /\ UNCHANGED <<processes, up>>
                  /\ last' = [Call("load", "-", "crashed") EXCEPT
                                 !.dead = dead, !.saves = <<s>>]
             ELSE /\ processes' = LoadProcesses(file, os)
                  /\ up' = TRUE
                  /\ last' = [Call("load", "-", "ok") EXCEPT
                                 !.dead = dead,
                                 !.saves = IF dead = {} THEN <<>> ELSE <<s>>]
          /\ UNCHANGED <<os, dirs, now, disowned, http>>

\* ------------------------------------------------------------------ the host
\* A process exits on its own.
ProcExit ==
    \E p \in Pids :
       /\ os[p] # "free"
       /\ os' = [os EXCEPT ![p] = "free"]
       /\ disowned' = disowned \ {p}
       /\ last' = Call("host", "-", "-")
       /\ UNCHANGED <<processes, file, dirs, up, now, swept, faults, http>>

\* The host gives a free pid to a process that is not a tenant's: one of its
\* own, or one started from the supervisor without a group of its own.
HostSpawn ==
    \E p \in Pids, kind \in {"host", "child"} :
       /\ os[p] = "free"
       /\ Cardinality({q \in Pids : os[q] \in {"host", "child"}}) < MaxHost
       /\ os' = [os EXCEPT ![p] = kind]
       /\ last' = Call("host", "-", "-")
       /\ UNCHANGED <<processes, file, dirs, up, now, swept, disowned, faults, http>>

Next ==
    \/ StartTenant
    \/ StopTenant
    \/ GetTenantInfo
    \/ Crash
    \/ Restart
    \/ ProcExit
    \/ HostSpawn

Spec == Init /\ [][Next]_vars

\* ---------------------------------------------------- save, then load again
\* The records start_tenant can have stored for tenant `t`.
Infos(t) ==
    {[pid |-> p, port |-> r.port, username |-> r.username,
      network_volume |-> NetworkVolume(t, r.env), started_at |-> ts,
      env |-> r.env] :
        r \in {q \in StartRequests : q.t = t}, p \in Pids, ts \in 1..MaxTime}

\* The registries the supervisor can hold: any subset of the tenants, each
\* with a record of its own, no two records started at the same time.
Registries ==
    {reg \in UNION {[S -> UNION {Infos(t) : t \in S}] : S \in SUBSET Tenants} :
        /\ \A t \in DOMAIN reg : reg[t] \in Infos(t)
        /\ \A t, u \in DOMAIN reg : t # u => reg[t].started_at # reg[u].started_at}

InitRoundTrip ==
    /\ processes \in Registries
    /\ os \in [Pids -> {"free", "host", "child"} \cup Tenants]
    /\ file = NoFile
    /\ dirs = {}
    /\ up = TRUE
    /\ now = MaxTime + 1
    /\ swept = {}
    /\ disowned = {}
    /\ faults = 0
    /\ last = NoCall
    /\ backlog = 0
    /\ inflight = 0
    /\ served = NoRequest

\* save_processes() writing the file.
SaveCall ==
    /\ last.op = "init"
    /\ file' = SaveProcesses(processes, file, "ok")
    /\ last' = [Call("save", "-", "ok") EXCEPT !.saves = <<"ok">>]
    /\ UNCHANGED <<processes, os, dirs, up, now, swept, disowned, faults, http>>

\* load_processes() reading it back, its sweep included.
LoadCall ==
    /\ last.op = "save"
    /\ processes' = LoadProcesses(file, os)
    /\ file' = SweepFile(JsonLoad(file.text), os, file, "ok")
    /\ swept' = swept \cup SweptNow(JsonLoad(file.text), os, "ok")
    /\ last' = [Call("load", "-", "ok") EXCEPT
                   !.dead = DeadPods(JsonLoad(file.text), os)]
    /\ UNCHANGED <<os, dirs, up, now, disowned, faults, http>>

NextRoundTrip == SaveCall \/ LoadCall

SpecRoundTrip == InitRoundTrip /\ [][NextRoundTrip]_vars

\* ---------------------------------------------------------- the HTTP server
\* The bodies callers post to /start: the complete ones, and one of them with
\* a key left out, or with an empty tenant id, or with port 0.
StartBody(r) ==
    [POD_ID |-> r.t, POD_USERNAME |-> r.username, PORT |-> r.port, env |-> r.env]

Without(body, k) == [x \in (DOMAIN body) \ {k} |-> body[x]]

StartBodies ==
    LET full == StartBody(Req("t1", "alice", 1, EmptyEnv)) IN
    {StartBody(r) : r \in StartRequests}
    \cup {Without(full, k) : k \in DOMAIN full}
    \cup {[full EXCEPT !.POD_ID = ""], [full EXCEPT !.PORT = 0]}

StopBodies ==
    {[POD_ID |-> t] : t \in Tenants} \cup {NoBody, [POD_ID |-> ""]}

ExecuteBodies == {[command |-> "sh"], NoBody, [command |-> ""]}

Posts(path, bodies) ==
    {HttpRequest("POST", path, TRUE, b) : b \in bodies}
    \cup {HttpRequest("POST", path, FALSE, NoBody)}

\* data.get(k) is truthy
Truthy(body, k) ==
    k \in DOMAIN body /\ body[k] # (IF k = "PORT" THEN 0 ELSE "")

\* data.get(k, dflt)
Get(body, k, dflt) == IF k \in DOMAIN body THEN body[k] ELSE dflt

StartBodyComplete_PortOptional(body) ==
    Truthy(body, "POD_ID") /\ Truthy(body, "POD_USERNAME")

\* Line 457: all([pod_id, username, port])
StartBodyComplete(body) ==
    Truthy(body, "POD_ID") /\ Truthy(body, "POD_USERNAME") /\ Truthy(body, "PORT")

\* Line 482: pod_id is truthy
StopBodyComplete(body) == Truthy(body, "POD_ID")

\* Lines 451-454: the arguments handle_start_request passes on.
StartArgs(body) ==
    Req(Get(body, "POD_ID", ""), Get(body, "POD_USERNAME", ""),
        Get(body, "PORT", 0), Get(body, "env", EmptyEnv))

InitHttp ==
    /\ processes = EmptyReg
    /\ file = NoFile
    /\ os = [p \in Pids |-> "free"]
    /\ dirs = {}
    /\ up = TRUE
    /\ now = 1
    /\ swept = {}
    /\ disowned = {}
    /\ faults = MaxFaults
    /\ last = NoCall
    /\ backlog = 0
    /\ inflight = 0
    /\ served = NoRequest

\* A client connects; the connection waits on the listening socket.
Connect ==
    /\ up
    /\ backlog + inflight < MaxConn
    /\ backlog' = backlog + 1
    /\ UNCHANGED <<processes, file, os, dirs, up, now, swept, disowned, faults,
                   last, inflight, served>>

CanAccept_Threading(n) == TRUE

\* socketserver.TCPServer (line 792) has no threading or forking mix-in:
\* serve_forever() takes the next connection only when the handler of the one
\* before has returned.
CanAccept(n) == n = 0

\* serve_forever(): accept one connection and build its handler.
Accept ==
    /\ up
    /\ backlog > 0
    /\ CanAccept(inflight)
    /\ backlog' = backlog - 1
    /\ inflight' = inflight + 1
    /\ UNCHANGED <<processes, file, os, dirs, up, now, swept, disowned, faults,
                   last, served>>

\* A handler answers without calling the ProcessManager.
Respond(op, code) ==
    /\ last' = Call(op, "-", code)
    /\ UNCHANGED <<processes, file, os, dirs, up, now, swept, disowned, faults>>

\* The handler has returned; a supervisor that ended in it has no
\* connections left.
Finished ==
    /\ inflight' = IF up' THEN inflight - 1 ELSE 0
    /\ backlog' = IF up' THEN backlog ELSE 0

\* handle_start_request(), lines 446-473.
HandleStart ==
    /\ up /\ inflight > 0
    /\ \E q \in Posts("/start", StartBodies) :
          /\ served' = q
          /\ IF ~q.json THEN Respond("handle_start", "500")
             ELSE IF ~StartBodyComplete(q.body) THEN Respond("handle_start", "400")
             ELSE StartCall(StartArgs(q.body))
    /\ Finished

\* handle_stop_request(), lines 475-497.
HandleStop ==
    /\ up /\ inflight > 0
    /\ \E q \in Posts("/stop", StopBodies) :
          /\ served' = q
          /\ IF ~q.json THEN Respond("handle_stop", "500")
             ELSE IF ~StopBodyComplete(q.body) THEN Respond("handle_stop", "400")
             ELSE StopCall(q.body.POD_ID)
    /\ Finished

\* do_GET, lines 365-373: /health, /metrics and /tenants all list the
\* tenants (lines 555, 411 and 759, 423); any other path is a 404.
HandleGet ==
    /\ up /\ inflight > 0
    /\ \E path \in {"/health", "/metrics", "/tenants", "/"} :
          /\ served' = HttpRequest("GET", path, FALSE, NoBody)
          /\ IF path = "/" THEN Respond("do_GET", "404") ELSE ListCall
    /\ Finished

\* What the command given to /execute does: it ends within the 300 s with
\* exit status 0 or another, or it does not end in time.
CommandRuns == {"exit_0", "exit_1", "timeout"}

\* Whether a process the shell started is still there when subprocess.run
\* returns or raises.  On TimeoutExpired subprocess.run kills the child it
\* started, the shell of shell=True, and nothing else; `left` says whether
\* the shell had started a process that is still running then.
ExecuteLeaves(run, left) == left

\* Lines 520 and 532-533: the status of the response.
ExecuteStatus(run) ==
    CASE run = "exit_0" -> "200"
      [] run = "exit_1" -> "500"
      [] OTHER -> "408"

\* What subprocess.run did, as far as the handler's caller can see it: the
\* 300 s ran out, and the process that is left behind.
ExecuteEvents(run, left, p) ==
    (IF run = "timeout" THEN <<Sig("EXPIRED", 0)>> ELSE <<>>)
    \o (IF ExecuteLeaves(run, left) THEN <<Sig("LEFT", p)>> ELSE <<>>)

\* handle_execute_request(), lines 499-536.
HandleExecute ==
    /\ up /\ inflight > 0
    /\ \E q \in Posts("/execute", ExecuteBodies) :
          /\ served' = q
          /\ IF ~q.json THEN Respond("execute", "500")
             ELSE IF ~Truthy(q.body, "command") THEN Respond("execute", "400")
             ELSE \E run \in CommandRuns, left \in BOOLEAN, p \in Pids :
                     /\ IF ExecuteLeaves(run, left)
                        THEN /\ os[p] = "free"
                             /\ Cardinality({x \in Pids : os[x] \in {"host", "child"}})
                                   < MaxHost
                             /\ os' = [os EXCEPT ![p] = "child"]
                        ELSE /\ p = 1
                             /\ os' = os
                     /\ last' = [Call("execute", "-", ExecuteStatus(run))
                                 EXCEPT !.events = ExecuteEvents(run, left, p)]
                     /\ UNCHANGED <<processes, file, dirs, up, now, swept,
                                    disowned, faults>>
    /\ Finished

\* do_POST, lines 375-383: a path that is none of the three.
HandleOtherPost ==
    /\ up /\ inflight > 0
    /\ served' = HttpRequest("POST", "/", TRUE, NoBody)
    /\ Respond("do_POST", "404")
    /\ Finished

\* A process exits on its own while the server runs.
Exits ==
    /\ \E p \in Pids :
          /\ os[p] # "free"
          /\ os' = [os EXCEPT ![p] = "free"]
          /\ disowned' = disowned \ {p}
    /\ UNCHANGED <<processes, file, dirs, up, now, swept, faults, last, http>>

NextHttp ==
    \/ Connect
    \/ Accept
    \/ HandleStart
    \/ HandleStop
    \/ HandleGet
    \/ HandleExecute
    \/ HandleOtherPost
    \/ Exits

SpecHttp == InitHttp /\ [][NextHttp]_vars

\* ------------------------------------------------ starts with env overrides
\* The env objects callers post: none, a workspace, a port and a tenant id of
\* their own.
EnvOverrides ==
    EnvChoices
    \cup {[k \in {"COMFYUI_PORT"} |-> Str(p)] : p \in Ports}
    \cup {[k \in {"POD_ID"} |-> t] : t \in Tenants}

EnvRequests ==
    {Req(t, "alice", port, env) :
        t \in Tenants, port \in Ports, env \in EnvOverrides}

StartWithOverrides ==
    /\ up
    /\ UNCHANGED http
    /\ \E r \in EnvRequests : StartCall(r)

NextEnv ==
    \/ StartWithOverrides
    \/ StopTenant
    \/ ProcExit

SpecEnv == InitHttp /\ [][NextEnv]_vars

\* ------------------------------------------------- a monitor polls the list
\* A registry start_tenant calls have filled and saved, and a process table
\* in which a tenant's process, if it is still there, has the pid of that
\* tenant's record.
InitListing ==
    /\ processes \in Registries
    /\ os \in {tab \in [Pids -> {"free", "host", "child"} \cup DOMAIN processes] :
                 /\ \A p \in Pids :
                       tab[p] \in DOMAIN processes => processes[tab[p]].pid = p
                 /\ Cardinality({p \in Pids : tab[p] \in {"host", "child"}})
                       <= MaxHost}
    /\ file = SaveProcesses(processes, NoFile, "ok")
    /\ dirs = {}
    /\ up = TRUE
    /\ now = MaxTime + 1
    /\ swept = {}
    /\ disowned = {}
    /\ faults = 0
    /\ last = NoCall
    /\ backlog = 0
    /\ inflight = 0
    /\ served = NoRequest

\* The host gives a free pid to a process that is not a tenant's, between two
\* requests.
PidTaken ==
    /\ \E p \in Pids, kind \in {"host", "child"} :
          /\ os[p] = "free"
          /\ Cardinality({q \in Pids : os[q] \in {"host", "child"}}) < MaxHost
          /\ os' = [os EXCEPT ![p] = kind]
    /\ UNCHANGED <<processes, file, dirs, up, now, swept, disowned, faults,
                   last, http>>

NextListing ==
    \/ Connect
    \/ Accept
    \/ HandleGet
    \/ Exits
    \/ PidTaken

SpecListing == InitListing /\ [][NextListing]_vars

\* ------------------------------------------------ stop_tenant, step by step
\* range(30) at line 236: the liveness polls after SIGTERM.
StopPolls == 30

\* One record, and a process table in which only the recorded pid is held:
\* by the tenant's process, by a process that took the pid after the tenant's
\* process went away, or by nothing.
InitStop ==
    /\ processes \in {reg \in Registries : Cardinality(DOMAIN reg) = 1}
    /\ os \in {tab \in [Pids -> {"free", "host", "child"} \cup DOMAIN processes] :
                 \A p \in Pids :
                    tab[p] # "free" => \E t \in DOMAIN processes : processes[t].pid = p}
    /\ file = SaveProcesses(processes, NoFile, "ok")
    /\ dirs = {}
    /\ up = TRUE
    /\ now = MaxTime + 1
    /\ swept = {}
    /\ disowned = {}
    /\ faults = 0
    /\ last = NoCall
    /\ backlog = 0
    /\ inflight = 0
    /\ served = NoRequest

\* The polls of the running stop that found the pid.
PollsDone(evs) == Cardinality({i \in DOMAIN evs : evs[i].ev = "POLL"})

\* The call in progress goes on at `pc`, having done `evs` so far.
Running(pc, evs) == [last EXCEPT !.status = pc, !.events = evs]

StopLeaves == <<dirs, now, swept, disowned, faults, http>>

\* Lines 220-229: no record, or a record whose pid does not exist, ends the
\* call at once; otherwise it goes on to line 233.
StopBegin ==
    /\ last.op = "init"
    /\ \E t \in Tenants :
          IF t \notin DOMAIN processes
          THEN /\ last' = Call("stop", t, "not_found")
               /\ UNCHANGED <<processes, file, os, up, StopLeaves>>
          ELSE IF ~(processes[t].pid # 0 /\ PidExists(os, processes[t].pid))
          THEN /\ processes' = Del(processes, t)
               /\ file' = SaveProcesses(processes', file, "ok")
               /\ last' = Call("stop", t, "not_running")
               /\ UNCHANGED <<os, up, StopLeaves>>
          ELSE /\ last' = Call("stop", t, "term")
               /\ UNCHANGED <<processes, file, os, up, StopLeaves>>

\* Line 233: os.killpg(os.getpgid(pid), signal.SIGTERM).
StopTerm ==
    /\ last.op = "stop" /\ last.status = "term"
    /\ LET pid == processes[last.t].pid IN
       IF ~PidExists(os, pid)
       THEN \* ProcessLookupError, caught at line 245
            /\ last' = Running("remove", last.events)
            /\ UNCHANGED <<processes, up>>
       ELSE IF Getpgid(os, pid) = SupervisorGroup
       THEN \* signal_handler ends the supervisor
            /\ Down
            /\ last' = Running("crashed", Append(last.events, Sig("SIGTERM", pid)))
       ELSE /\ last' = Running("poll", Append(last.events, Sig("SIGTERM", pid)))
            /\ UNCHANGED <<processes, up>>
    /\ UNCHANGED <<file, os, StopLeaves>>

StopPollNext_Once(n, exists) == "check"

StopPollNext_WhileThere(n, exists) == IF exists THEN "poll" ELSE "check"

\* Lines 236-239: where the loop goes after the poll that follows `n` polls
\* which found the pid.
StopPollNext(n, exists) ==
    IF exists /\ n + 1 < StopPolls THEN "poll" ELSE "check"

\* Lines 237-239: one psutil.pid_exists and, if it is there, one sleep(1).
StopPoll ==
    /\ last.op = "stop" /\ last.status = "poll"
    /\ LET pid == processes[last.t].pid
           exists == PidExists(os, pid)
       IN last' = Running(StopPollNext(PollsDone(last.events), exists),
                          Append(last.events,
                                 Sig(IF exists THEN "POLL" ELSE "GONE", pid)))
    /\ UNCHANGED <<processes, file, os, up, StopLeaves>>

\* Line 241: if psutil.pid_exists(pid).
StopCheck ==
    /\ last.op = "stop" /\ last.status = "check"
    /\ last' = Running(IF PidExists(os, processes[last.t].pid) THEN "kill"
                       ELSE "remove",
                       last.events)
    /\ UNCHANGED <<processes, file, os, up, StopLeaves>>

\* Lines 242-243: os.killpg(os.getpgid(pid), signal.SIGKILL) and sleep(2).
StopKill ==
    /\ last.op = "stop" /\ last.status = "kill"
    /\ LET pid == processes[last.t].pid IN
       last' = Running("remove",
                       IF PidExists(os, pid)
                       THEN Append(last.events, Sig("SIGKILL", pid))
                       ELSE last.events)
    /\ UNCHANGED <<processes, file, os, up, StopLeaves>>

\* Lines 249-254.
StopRemove ==
    /\ last.op = "stop" /\ last.status = "remove"
    /\ processes' = StopRegistry(processes, last.t, SURVIVED_KILL)
    /\ file' = SaveProcesses(processes', file, "ok")
    /\ last' = Running(StopStatus(TRUE), last.events)
    /\ UNCHANGED <<os, up, StopLeaves>>

\* The process that holds the recorded pid goes away, by itself or of a
\* signal it was sent, at any moment of the call; a process that does not let
\* itself be killed never does.
TargetExits ==
    /\ last.op = "stop" /\ last.status \in {"term", "poll", "check", "kill"}
    /\ PidExists(os, processes[last.t].pid)
    /\ os' = [os EXCEPT ![processes[last.t].pid] = "free"]
    /\ UNCHANGED <<processes, file, up, last, StopLeaves>>

StopStep ==
    StopBegin \/ StopTerm \/ StopPoll \/ StopCheck \/ StopKill \/ StopRemove

NextStop ==
    \/ StopBegin
    \/ StopTerm
    \/ StopPoll
    \/ StopCheck
    \/ StopKill
    \/ StopRemove
    \/ TargetExits

SpecStop == InitStop /\ [][NextStop]_vars

\* stop_tenant runs in the supervisor's only thread and none of its calls
\* blocks: each step is taken once it can be.
FairSpecStop == SpecStop /\ WF_vars(StopStep)

\* ------------------------------------------------------ the probe by itself
\* _is_comfyui_healthy(existing_port) as start_tenant (line 143) and
\* get_tenant_info (line 270) call it: on the truthy port of a record whose
\* pid exists.
ProbeCall ==
    \E t \in DOMAIN processes, resp \in ProbeOutcomes :
       /\ PidExists(os, processes[t].pid)
       /\ processes[t].port # 0
       /\ last' = [Call("probe", t,
                         IF IsComfyuiHealthy(resp) THEN "healthy"
                         ELSE "not_healthy")
                   EXCEPT !.probe = resp,
                          !.events = ProbeEvents(processes[t].port, resp)]
       /\ UNCHANGED <<processes, file, os, dirs, up, now, swept, disowned,
                      faults, http>>

\* The process behind the record goes away between two probes.
ProbedExits ==
    \E t \in DOMAIN processes :
       /\ PidExists(os, processes[t].pid)
       /\ os' = [os EXCEPT ![processes[t].pid] = "free"]
       /\ last' = Call("host", "-", "-")
       /\ UNCHANGED <<processes, file, dirs, up, now, swept, disowned,
                      faults, http>>

NextProbe == ProbeCall \/ ProbedExits

SpecProbe == InitStop /\ [][NextProbe]_vars

\* ======================================================================
\* Properties
\* ======================================================================
SpawnedPids(evs) ==
    {evs[i].pid : i \in {j \in DOMAIN evs : evs[j].ev = "SPAWN" /\ evs[j].pid # 0}}

Signals(evs) == {i \in DOMAIN evs : evs[i].ev \in {"SIGTERM", "SIGKILL"}}

\* A SIGTERM for `pid` comes before the spawn of a new process.
TermBeforeSpawn(evs, pid) ==
    \E i, j \in DOMAIN evs :
       i < j /\ evs[i] = Sig("SIGTERM", pid) /\ evs[j].ev = "SPAWN" /\ evs[j].pid # 0

\* C1: a start for a tenant whose recorded pid exists and whose port probe is
\* healthy returns already_running, spawns nothing, signals nothing and
\* leaves the registry, the file and the process table as they were.
C1_StartIdempotent ==
    [][\A t \in Tenants :
          (/\ last'.op = "start" /\ last'.t = t
           /\ t \in DOMAIN processes
           /\ PidExists(os, processes[t].pid)
           /\ last'.probe = "http_200")
          => (/\ last'.status = "already_running"
              /\ last'.events = <<>>
              /\ processes' = processes
              /\ file' = file
              /\ os' = os)]_vars

C1_Witness ==
    /\ last.op = "start" /\ last.status = "already_running"
    /\ last.t \in DOMAIN processes
    /\ os[processes[last.t].pid] = last.t

\* C2: when start_tenant has spawned a process for a tenant, no other
\* process spawned for that tenant is alive.
C2_NoStaleProcessAtSpawn ==
    \A t \in Tenants :
       (last.op = "start" /\ last.t = t /\ SpawnedPids(last.events) # {})
       => \A p \in Pids : os[p] = t => p \in SpawnedPids(last.events)

\* C3 as claimed: a start over a record whose pid exists and whose probe is
\* not healthy sends SIGTERM for the old pid before it spawns, and a start
\* that returns started leaves the tenant's record carrying the new pid.
C3_TermBeforeSpawn ==
    [][\A t \in Tenants :
          (/\ last'.op = "start" /\ last'.t = t
           /\ t \in DOMAIN processes
           /\ PidExists(os, processes[t].pid)
           /\ last'.probe # "http_200")
          => (/\ SpawnedPids(last'.events) # {}
                 => TermBeforeSpawn(last'.events, processes[t].pid)
              /\ last'.status = "started"
                 => (/\ t \in DOMAIN processes'
                     /\ processes'[t].pid \in SpawnedPids(last'.events)))]_vars

\* C3 as amended: the same, except that no signal at all is sent when the old
\* process has gone by itself before the SIGTERM could be sent.
C3_TermBeforeSpawnUnlessGone ==
    [][\A t \in Tenants :
          (/\ last'.op = "start" /\ last'.t = t
           /\ t \in DOMAIN processes
           /\ PidExists(os, processes[t].pid)
           /\ last'.probe # "http_200")
          => (/\ SpawnedPids(last'.events) # {}
                 => \/ TermBeforeSpawn(last'.events, processes[t].pid)
                    \/ /\ Signals(last'.events) = {}
                       /\ os'[processes[t].pid] # os[processes[t].pid]
                          \/ processes[t].pid \in SpawnedPids(last'.events)
              /\ last'.status = "started"
                 => (/\ t \in DOMAIN processes'
                     /\ processes'[t].pid \in SpawnedPids(last'.events)))]_vars

C3_Witness ==
    /\ last.op = "start" /\ last.status = "started"
    /\ \E p \in Pids : TermBeforeSpawn(last.events, p)
    /\ processes[last.t].pid \in SpawnedPids(last.events)

\* C4: stop returns not_found exactly when there is no record (and changes
\* nothing), not_running exactly when the record's pid does not exist, stopped
\* when it exists, and after any of them the tenant has no record.
C4_StopSemantics ==
    [][\A t \in Tenants :
          (last'.op = "stop" /\ last'.t = t /\ last'.status # "crashed")
          => (/\ last'.status = "not_found" <=> t \notin DOMAIN processes
              /\ last'.status = "not_found" => processes' = processes
              /\ last'.status = "not_running"
                 <=> (t \in DOMAIN processes /\ ~PidExists(os, processes[t].pid))
              /\ (t \in DOMAIN processes /\ PidExists(os, processes[t].pid))
                 => last'.status = "stopped"
              /\ t \notin DOMAIN processes')]_vars

C4_Witness ==
    /\ last.op = "stop" /\ last.status = "stopped"
    /\ \E p \in Pids : /\ os[p] = last.t
                       /\ last.events = <<Sig("SIGTERM", p), Sig("SIGKILL", p)>>
    /\ last.t \notin DOMAIN processes
InRegistry(procs, t, info) == t \in DOMAIN procs /\ procs[t] = info

InFile(f, t, info) ==
    f.state = "json" /\ t \in DOMAIN f.text /\ f.text[t] = JsonDumpInfo(info)

\* C5 as claimed: a list or a load removes every record whose pid does not
\* exist from the registry and from the file, and a record a sweep has
\* removed is never in the registry again.
C5_SweptForGood ==
    /\ [](up => \A e \in swept : ~InRegistry(processes, e.t, e.info))
    /\ [][/\ (last'.op = "list" /\ last'.status = "ok")
             => \A t \in DOMAIN processes :
                   ~PidExists(os, processes[t].pid)
                   => (/\ ~InRegistry(processes', t, processes[t])
                       /\ ~InFile(file', t, processes[t]))
          /\ (last'.op = "load" /\ last'.status = "ok" /\ file.state = "json")
             => \A t \in DOMAIN file.text :
                   ~PidExists(os, file.text[t][1])
                   => (/\ t \notin DOMAIN processes'
                       /\ ~InFile(file', t, JsonLoadInfo(file.text[t])))]_vars

\* C5 as amended: the record leaves the registry; it leaves the file when
\* the sweep's write succeeds, and a record whose removal was written is
\* never in the registry again.
C5_SweptForGoodWhenSaved ==
    /\ [](up => \A e \in swept : e.saved => ~InRegistry(processes, e.t, e.info))
    /\ [][/\ (last'.op = "list" /\ last'.status = "ok")
             => \A t \in DOMAIN processes :
                   ~PidExists(os, processes[t].pid)
                   => (/\ ~InRegistry(processes', t, processes[t])
                       /\ last'.saves = <<"ok">>
                          => ~InFile(file', t, processes[t]))
          /\ (last'.op = "load" /\ last'.status = "ok" /\ file.state = "json")
             => \A t \in DOMAIN file.text :
                   ~PidExists(os, file.text[t][1])
                   => (/\ t \notin DOMAIN processes'
                       /\ last'.saves = <<"ok">>
                          => ~InFile(file', t, JsonLoadInfo(file.text[t])))]_vars

C5_Witness ==
    /\ last.op \in {"list", "load"} /\ last.status = "ok"
    /\ \E e \in swept :
          e.saved /\ e.t \in last.dead /\ e.t \notin DOMAIN processes
          /\ ~InFile(file, e.t, e.info)

\* C6: every listed tenant gets one of the three statuses; alive with a
\* failing probe is unhealthy; healthy only if alive with a healthy probe;
\* dead only if the pid is gone.
C6_StatusClassification ==
    (last.op = "list" /\ last.status = "ok")
    => /\ DOMAIN last.listing = DOMAIN processes
       /\ \A t \in DOMAIN last.listing :
             LET e == last.listing[t]
                 alive == PidExists(os, processes[t].pid)
                 probeHealthy == e.resp = "http_200"
             IN /\ e.status \in {"healthy", "unhealthy", "dead"}
                /\ (alive /\ ~probeHealthy) => e.status = "unhealthy"
                /\ e.status = "healthy" => (alive /\ probeHealthy)
                /\ e.status = "dead" => ~alive

C6_Witness ==
    /\ last.op = "list" /\ last.status = "ok"
    /\ \E t \in DOMAIN last.listing :
          /\ last.listing[t].status = "unhealthy"
          /\ PidExists(os, processes[t].pid)
          /\ last.listing[t].resp = "http_500"

\* C7: after a load, every live process the supervisor spawned and has not
\* run a kill sequence on is named by its tenant's record.
C7_NoTenantLost ==
    (last.op = "load" /\ last.status = "ok")
    => \A p \in Pids \ disowned :
          os[p] \in Tenants
          => (os[p] \in DOMAIN processes /\ processes[os[p]].pid = p)

\* The registry `reg` without the records whose pid does not exist.
Restrict(reg, table) ==
    [k \in {t \in DOMAIN reg : PidExists(table, reg[t].pid)} |-> reg[k]]

C9_CrashSafeSave ==
    [][(\E i \in DOMAIN last'.saves : last'.saves[i] # "ok")
       => (file' = file \/ file'.state = "json")]_vars

SpawnAttempts(evs) == Cardinality({i \in DOMAIN evs : evs[i].ev = "SPAWN"})

\* C10: a start in which the workspace, the scripts or the spawn fail raises,
\* tries the spawn at most once and leaves no record; a start without a
\* failure for a tenant that has no record returns started and leaves the
\* tenant's record, which carries the pid of the one process it spawned.
C10_FailedStartRecoverable ==
    /\ []((last.op = "start" /\ last.fault \in {"mkdir", "scripts", "spawn"})
          => (/\ last.status = "error"
              /\ last.t \notin DOMAIN processes
              /\ SpawnAttempts(last.events) <= 1
              /\ SpawnedPids(last.events) = {}))
    /\ [][\A t \in Tenants :
             (/\ last'.op = "start" /\ last'.t = t
              /\ t \notin DOMAIN processes
              /\ last'.fault = "none" /\ last'.status # "crashed")
             => (/\ last'.status = "started"
                 /\ SpawnAttempts(last'.events) = 1
                 /\ t \in DOMAIN processes'
                 /\ {processes'[t].pid} = SpawnedPids(last'.events))]_vars

C10_Witness ==
    /\ last.op = "start" /\ last.status = "error" /\ last.fault = "spawn"
    /\ last.t \notin DOMAIN processes
    /\ <<"workspace", last.t>> \in dirs
\* C12: every process start_tenant spawns leads a group of its own, which is
\* not the supervisor's, and no signal stop_tenant or _force_cleanup_tenant
\* sends is addressed to the supervisor's group.
C12_NeverSignalsOwnGroup ==
    [][(last'.op \in {"start", "stop"})
       => /\ \A p \in SpawnedPids(last'.events) :
                Getpgid(os', p) = p /\ Getpgid(os', p) # SupervisorGroup
          /\ \A i \in Signals(last'.events) :
                Getpgid(os, last'.events[i].pid) # SupervisorGroup]_vars
\* A write of the registry file failed during the call, and the supervisor
\* was not killed in it.
SaveFailed(call) ==
    /\ \E i \in DOMAIN call.saves : call.saves[i] \in {"open_fail", "write_fail"}
    /\ \A i \in DOMAIN call.saves : call.saves[i] # "crash"

\* C16: a call in which a write of the registry file fails still updates the
\* registry in memory and returns what it returns when the write succeeds.
C16_SaveFailureDoesNotBlock ==
    [][SaveFailed(last')
       => /\ (last'.op = "start" /\ last'.fault = "none")
             => (/\ last'.status = "started"
                 /\ last'.t \in DOMAIN processes'
                 /\ {processes'[last'.t].pid} = SpawnedPids(last'.events))
          /\ last'.op = "stop"
             => (/\ last'.status
                      = StopStatus(PidExists(os, processes[last'.t].pid))
                 /\ last'.t \notin DOMAIN processes')
          /\ last'.op = "list"
             => (/\ last'.status = "ok"
                 /\ processes' = CleanupDeadProcesses(processes, os))
          /\ last'.op = "load"
             => (/\ last'.status = "ok"
                 /\ up'
                 /\ processes' = LoadProcesses(file, os))]_vars

C16_Witness ==
    /\ last.op = "start" /\ last.status = "started"
    /\ last.saves = <<"write_fail", "ok">>
    /\ last.t \in DOMAIN processes
    /\ Signals(last.events) # {}
\* C17: however the log-forwarding setup fails, the start returns started
\* and the record stored before it is in the registry.
C17_CloudwatchBestEffort ==
    (last.op = "start" /\ last.cloudwatch \notin {"not_run", "ok"})
    => (/\ last.status = "started"
        /\ last.t \in DOMAIN processes
        /\ {processes[last.t].pid} = SpawnedPids(last.events))

C17_Witness ==
    /\ last.op = "start" /\ last.status = "started"
    /\ last.cloudwatch = "timeout"
    /\ last.t \in DOMAIN processes
    /\ os[processes[last.t].pid] = last.t
\* C20: a recorded pid that goes away between the liveness check and a signal
\* call raises nothing to the caller: stop_tenant returns stopped and removes
\* the record, start_tenant goes on to spawn the new process.
C20_VanishedPidSwallowed ==
    [][\A t \in Tenants :
          (/\ t \in DOMAIN processes
           /\ PidExists(os, processes[t].pid)
           /\ last'.t = t
           /\ last'.status \notin {"crashed", "already_running"}
           /\ \A i \in DOMAIN last'.events :
                 last'.events[i] # Sig("SIGKILL", processes[t].pid))
          => /\ last'.op = "stop"
                => (last'.status = "stopped" /\ t \notin DOMAIN processes')
             /\ (last'.op = "start" /\ last'.fault = "none")
                => (/\ last'.status = "started"
                    /\ SpawnedPids(last'.events) # {}
                    /\ {processes'[t].pid} = SpawnedPids(last'.events))]_vars

C20_Witness ==
    /\ last.op = "stop" /\ last.status = "stopped"
    /\ last.events = <<>>
    /\ last.t \notin DOMAIN processes
\* The events of `evs` before the k-th.
Before(evs, k) == {i \in DOMAIN evs : i < k}

\* C18: in a stop of a live pid SIGTERM is the first signal; SIGKILL comes
\* only after SIGTERM and after 30 polls that all found the pid, and only to a
\* pid that is there when it is sent; a poll that found the pid gone is
\* followed by no SIGKILL; the record is in the registry until the signalling
\* is over.
C18_StopSignalOrder ==
    /\ [](last.op = "stop"
          => LET evs == last.events IN
             /\ \A i \in Signals(evs) :
                   (\A j \in Signals(evs) : i <= j) => evs[i].ev = "SIGTERM"
             /\ \A k \in DOMAIN evs :
                   evs[k].ev = "SIGKILL"
                   => /\ \E i \in Before(evs, k) : evs[i].ev = "SIGTERM"
                      /\ Cardinality({i \in Before(evs, k) : evs[i].ev = "POLL"})
                            = StopPolls
                      /\ \A i \in DOMAIN evs : evs[i].ev # "GONE"
             /\ last.status \in {"term", "poll", "check", "kill", "remove"}
                   => last.t \in DOMAIN processes)
    /\ [][(/\ last'.op = "stop"
           /\ Len(last'.events) > Len(last.events)
           /\ last'.events[Len(last'.events)].ev = "SIGKILL")
          => PidExists(os, last'.events[Len(last'.events)].pid)]_vars

C18_Witness ==
    /\ last.op = "stop" /\ last.status = "stopped"
    /\ \E i \in DOMAIN last.events : last.events[i].ev = "GONE"
    /\ \E i \in DOMAIN last.events : last.events[i].ev = "POLL"
    /\ last.t \notin DOMAIN processes

\* C19: a stop that has sent SIGTERM to a live tenant returns stopped, after
\* at most 30 polls and at most one SIGKILL, whatever the process does.
C19_StopCompletes ==
    /\ [](last.op = "stop"
          => /\ PollsDone(last.events) <= StopPolls
             /\ Len(last.events) <= StopPolls + 2)
    /\ (last.op = "stop" /\ last.status = "poll")
          ~> (last.op = "stop" /\ last.status = "stopped")

C19_Witness ==
    /\ last.op = "stop" /\ last.status = "stopped"
    /\ \E i \in DOMAIN last.events :
          /\ last.events[i].ev = "SIGKILL"
          /\ os[last.events[i].pid] = last.t
\* The TCP connect of the probe succeeded.
TcpConnected(resp) == resp \notin ConnectFailures

\* The request to the service root was answered with a 2xx status.
SuccessClass(resp) == StatusCode(resp) \in 200..299

\* C14: the probe reports healthy exactly when the TCP connect succeeds and
\* the request to the root is answered with a success-class status; the
\* request is made only after a successful connect; every other outcome
\* gives not-healthy, and nothing is raised.
C14_TwoStageProbe ==
    last.op = "probe"
    => /\ last.status \in {"healthy", "not_healthy"}
       /\ last.status = "healthy"
             <=> (TcpConnected(last.probe) /\ SuccessClass(last.probe))
       /\ \A i \in DOMAIN last.events :
             last.events[i].ev = "GET"
             => (/\ TcpConnected(last.probe)
                 /\ \E j \in Before(last.events, i) : last.events[j].ev = "CONNECT")
\* A handler has returned in this step.
HandlerReturned == inflight' < inflight

\* C11: control requests are served one at a time: at most one handler is at
\* work at any time, a connection is accepted only when no handler is at
\* work, and the registry, the registry file and the last supervisor
\* operation change only in the step of the one handler that is at work,
\* which has returned when the step is over.
C11_SerializedRequests ==
    /\ [](inflight <= 1)
    /\ [][/\ inflight' > inflight => inflight = 0
          /\ (processes' # processes \/ file' # file \/ last' # last)
                => (inflight = 1 /\ inflight' = 0)]_vars

C11_Witness ==
    /\ inflight = 1
    /\ backlog > 0
    /\ last.op = "start"
    /\ last.status = "started"

Expired(evs) == \E i \in DOMAIN evs : evs[i].ev = "EXPIRED"

\* C13: when the command of an execute request runs over the 300 s, the
\* handler answers 408, and when it has answered no process the command
\* started is running that was not running before.
C13_ExecuteTimeout ==
    [][(HandlerReturned /\ last'.op = "execute" /\ Expired(last'.events))
          => /\ last'.status = "408"
             /\ \A p \in Pids : os'[p] = "child" => os[p] = "child"]_vars

StartFields == {"POD_ID", "POD_USERNAME", "PORT"}

MissingField(q) ==
    /\ q.method = "POST"
    /\ q.json
    /\ \/ q.path = "/start" /\ ~(StartFields \subseteq DOMAIN q.body)
       \/ q.path = "/stop" /\ "POD_ID" \notin DOMAIN q.body

\* C15: a /start request whose JSON body lacks POD_ID, POD_USERNAME or PORT,
\* and a /stop request whose JSON body lacks POD_ID, is answered 400 by the
\* handler itself, without a call of start_tenant or stop_tenant, and leaves
\* the registry, the registry file and the process table as they were.
C15_BoundaryValidation ==
    [][(HandlerReturned /\ MissingField(served'))
          => /\ last'.status = "400"
             /\ last'.op \in {"handle_start", "handle_stop"}
             /\ UNCHANGED <<processes, file, os, up>>]_vars

C15_Witness ==
    /\ MissingField(served)
    /\ served.path = "/start"
    /\ last.status = "400"
    /\ processes # EmptyReg
    /\ \E p \in Pids : os[p] \in Tenants

\* The process behind a recorded pid, if there is one, was spawned for the
\* tenant of the record and leads the group that carries its pid.
OwnLeader(table, t, pid) ==
    PidExists(table, pid) => (table[pid] = t /\ Getpgid(table, pid) = pid)

\* C21: in every reachable state every pid of the registry that names a
\* process names one the supervisor spawned for that tenant, with group id
\* equal to the pid; and every SIGTERM and SIGKILL of start_tenant's forced
\* cleanup and of stop_tenant goes to a process spawned for the tenant of the
\* call.
C21_RegistryPidsAreOwnLeaders ==
    /\ [](\A t \in DOMAIN processes : OwnLeader(os, t, processes[t].pid))
    /\ [][(last'.op \in {"start", "stop"} /\ last' # last)
            => \A i \in Signals(last'.events) :
                  os[last'.events[i].pid] = last'.t]_vars

\* C22: in every reachable state no two tenant-ids of the registry have the
\* same port.
C22_OnePortPerTenant ==
    \A t1 \in DOMAIN processes, t2 \in DOMAIN processes :
       t1 # t2 => processes[t1].port # processes[t2].port

\* The tenants a call reported with status 'dead'.
ReportedDead(call) ==
    {t \in DOMAIN call.listing : call.listing[t].status = "dead"}

\* C23: when get_tenant_info() has reported a tenant 'dead' and no
\* start_tenant has run since, the next get_tenant_info() does not list that
\* tenant.
C23_DeadReportedOnce ==
    [][(HandlerReturned /\ last.op = "list" /\ last'.op = "list"
          /\ last'.status = "ok")
          => \A t \in ReportedDead(last) : t \notin DOMAIN last'.listing]_vars

\* The paths whose handlers call get_tenant_info().
ListPaths == {"/health", "/metrics", "/tenants"}

\* C24: a GET request that lists the tenants, if the supervisor lives through
\* it, adds no record and changes no field of a record; the records it
\* removes are records whose pid did not exist when it began, and every
\* record whose pid existed then is kept as it was, whatever its port
\* answered.
C24_ListingReadOnly ==
    [][(HandlerReturned /\ served'.method = "GET" /\ served'.path \in ListPaths
          /\ up')
          => /\ DOMAIN processes' \subseteq DOMAIN processes
             /\ \A t \in DOMAIN processes' : processes'[t] = processes[t]
             /\ \A t \in DOMAIN processes :
                   PidExists(os, processes[t].pid) <=> t \in DOMAIN processes']_vars

C24_Witness ==
    /\ last.op = "list"
    /\ last.status = "ok"
    /\ last.dead # {}
    /\ \E t \in DOMAIN processes : last.listing[t].status = "unhealthy"

\* What load_processes() would read from the file is the registry `procs`.
Persisted(f, procs) ==
    \/ f.state = "json" /\ JsonLoad(f.text) = procs
    \/ f.state = "absent" /\ procs = EmptyReg

WritesOk(call) == \A i \in DOMAIN call.saves : call.saves[i] = "ok"

SupervisorOps == {"start", "stop", "list", "load"}

\* C25: after a start, stop, list or load that the supervisor lives through
\* and whose writes of the file all succeeded, the file holds the registry:
\* always if the operation wrote the file, and, if it did not, whenever the
\* file held the registry before (for a load: whenever the file was not left
\* broken by an earlier write).
C25_SynchronousPersistence ==
    /\ [](  (up /\ last.op \in SupervisorOps /\ last.saves # <<>> /\ WritesOk(last))
            => Persisted(file, processes))
    /\ [][(/\ last'.op \in SupervisorOps
           /\ up'
           /\ WritesOk(last')
           /\ IF up THEN Persisted(file, processes) ELSE file.state # "corrupt")
          => Persisted(file', processes')]_vars

C25_Witness ==
    /\ up
    /\ last.op = "start"
    /\ last.status = "started"
    /\ last.saves = <<"ok", "ok">>
    /\ last.t \in DOMAIN processes
    /\ Persisted(file, processes)

\* C26: after a start_tenant that returned 'started', whatever env the caller
\* gave, the environment handed to the spawned process has the record's port
\* as COMFYUI_PORT, the record's workspace as NETWORK_VOLUME and the record's
\* tenant-id as POD_ID.
C26_RecordAgreesWithEnv ==
    (up /\ last.op = "start" /\ last.status = "started")
       => /\ last.t \in DOMAIN processes
          /\ last.spawn_env["COMFYUI_PORT"] = Str(processes[last.t].port)
          /\ last.spawn_env["NETWORK_VOLUME"] = processes[last.t].network_volume
          /\ last.spawn_env["POD_ID"] = last.t

====
